---- MODULE Spec2Model ----
(***************************************************************************)
(* Forward modelling of the gravity fields of right-rectangular prisms:    *)
(* harmonica/_forward/prism.py.                                            *)
(*                                                                         *)
(* A prism is the tuple <<west, east, south, north, bottom, top>>, an      *)
(* observation point the tuple <<easting, northing, upward>> (the three    *)
(* coordinate arrays of the code, read at one index).  The analytic        *)
(* kernels are functions of the choclo library; a kernel evaluation is     *)
(* kept as the term it is (kernel, point, prism, density), and a floating  *)
(* point sum as the ordered sequence of the terms added to zero, so that   *)
(* neither the order of a sum nor the set of its terms is lost.  The        *)
(* kernels are taken to return a value for every point and prism.          *)
(***************************************************************************)
EXTENDS Integers, Sequences, FiniteSets, TLC

VARIABLES
    pc,              \* position of the call in prism_gravity
    field,           \* argument field
    coordinates,     \* argument coordinates, as a sequence of points
    prisms,          \* local prisms (reassigned by the null-prism filter)
    density,         \* local density (reassigned by the null-prism filter)
    disable_checks,  \* argument disable_checks
    progressbar,     \* argument progressbar
    parallel,        \* argument parallel
    result,          \* local result, one value per observation point
    error,           \* the exception the call raised, if any
    warnings,        \* number of warnings.warn calls made
    trace,           \* the steps of the call begun so far, in order
    progress_proxy,  \* local progress_proxy
    owner,           \* prange: the worker each point index is given to
    inner,           \* jit_prism_gravity: prisms accumulated, per point
    finished,        \* jit_prism_gravity: points whose iteration has ended
    baseline,        \* array returned by the call on the collection without the appended prism
    given,           \* the arguments prisms and density, as the caller passed them
    ProgressBar      \* module global ProgressBar: None when numba_progress is missing

vars == <<pc, field, coordinates, prisms, density, disable_checks, progressbar,
          parallel, result, error, warnings, trace, progress_proxy, owner,
          inner, finished, baseline, given, ProgressBar>>

(***************************************************************************)
(* Bounds of the model.                                                    *)
(***************************************************************************)
MaxCoord == 2
MaxPrisms == 2
MaxPoints == 2
MaxDensity == 1
NumWorkers == 2

Coord == 0..MaxCoord
\* The faces of the prisms lie on the outer planes of the grid, so that a
\* point of the grid can be a vertex, on an edge, on a face or inside.
PrismBounds == {0, MaxCoord}
Points == Coord \X Coord \X Coord
AllPrisms == PrismBounds \X PrismBounds \X PrismBounds \X PrismBounds
             \X PrismBounds \X PrismBounds
Densities == 0..MaxDensity

SeqsUpTo(S, n) == UNION {[1..k -> S] : k \in 1..n}

Range(s) == {s[i] : i \in 1..Len(s)}

None == "None"
NoArrays == [prisms |-> <<>>, density |-> <<>>]
\* progress_proxy = None: no progress bar was made.
NoProgress == [made |-> FALSE, total |-> 0, n |-> 0, closed |-> FALSE]

(***************************************************************************)
(* FIELDS: the registry of the kernels.                                    *)
(***************************************************************************)
FIELDS ==
    [potential |-> "gravity_pot",
     g_e |-> "gravity_e",
     g_n |-> "gravity_n",
     g_z |-> "gravity_u",
     g_ee |-> "gravity_ee",
     g_nn |-> "gravity_nn",
     g_zz |-> "gravity_uu",
     g_en |-> "gravity_en",
     g_ez |-> "gravity_eu",
     g_nz |-> "gravity_nu"]

FieldTags == DOMAIN FIELDS
\* What a caller may pass: the registered tags and one that is not.
FieldInputs == FieldTags \cup {"g_xx"}

(***************************************************************************)
(* Exceptions.                                                             *)
(***************************************************************************)
NoError == [kind |-> "none", exception |-> "none", groups |-> <<>>]
UnknownField == [kind |-> "UnknownField", exception |-> "ValueError", groups |-> <<>>]
DensityCountMismatch ==
    [kind |-> "DensityCountMismatch", exception |-> "ValueError", groups |-> <<>>]
MissingProgressDependency ==
    [kind |-> "MissingProgressDependency", exception |-> "ImportError", groups |-> <<>>]
InvalidGeometry(groups) ==
    [kind |-> "InvalidGeometry", exception |-> "ValueError", groups |-> groups]

(***************************************************************************)
(* numpy: arr[mask], the elements of arr at which the boolean mask holds,  *)
(* in the order of arr.                                                    *)
(***************************************************************************)
RECURSIVE BooleanIndex(_, _)
BooleanIndexFirstOnly(arr, mask) ==
    LET hits == {i \in 1..Len(arr) : mask[i]}
    IN  IF hits = {} THEN <<>>
        ELSE <<arr[CHOOSE i \in hits : \A j \in hits : i <= j]>>

BooleanIndex(arr, mask) ==
    IF arr = <<>> THEN <<>>
    ELSE (IF Head(mask) THEN <<Head(arr)>> ELSE <<>>)
         \o BooleanIndex(Tail(arr), Tail(mask))

AnyTrue(mask) == \E i \in 1..Len(mask) : mask[i]

(***************************************************************************)
(* _check_prisms: the message of the ValueError is kept as its groups, one *)
(* per constraint named in it, each with the prisms listed under it.       *)
(***************************************************************************)
bad_we(ps) == [i \in 1..Len(ps) |-> ps[i][1] > ps[i][2]]
bad_sn(ps) == [i \in 1..Len(ps) |-> ps[i][3] > ps[i][4]]
bad_bt(ps) == [i \in 1..Len(ps) |-> ps[i][5] > ps[i][6]]

_check_prisms(ps) ==
    IF AnyTrue(bad_we(ps))
    THEN InvalidGeometry(<<[constraint |-> "west_east",
                            invalid |-> BooleanIndex(ps, bad_we(ps))]>>)
    ELSE IF AnyTrue(bad_sn(ps))
    THEN InvalidGeometry(<<[constraint |-> "south_north",
                            invalid |-> BooleanIndex(ps, bad_sn(ps))]>>)
    ELSE IF AnyTrue(bad_bt(ps))
    THEN InvalidGeometry(<<[constraint |-> "bottom_top",
                            invalid |-> BooleanIndex(ps, bad_bt(ps))]>>)
    ELSE NoError

(***************************************************************************)
(* _discard_null_prisms.  The mask assignment null_prisms[density == 0]    *)
(* needs density and prisms of one length; numpy raises IndexError         *)
(* otherwise, which the caller of this operator decides beforehand.        *)
(***************************************************************************)
null_prisms_NoVolume(ps, dens) ==
    [i \in 1..Len(ps) |-> dens[i] = 0]

null_prisms(ps, dens) ==
    LET zero_volume == [i \in 1..Len(ps) |->
                           \/ ps[i][1] = ps[i][2]
                           \/ ps[i][3] = ps[i][4]
                           \/ ps[i][5] = ps[i][6]]
    IN  [i \in 1..Len(ps) |-> IF dens[i] = 0 THEN TRUE ELSE zero_volume[i]]

logical_not(mask) == [i \in 1..Len(mask) |-> ~mask[i]]

\* Line 411 with the densities cut to the number of the prisms kept, in place
\* of indexed by the mask.
_discard_null_prisms_DensityTruncated(ps, dens) ==
    [prisms |-> BooleanIndex(ps, logical_not(null_prisms(ps, dens))),
     density |-> SubSeq(dens, 1,
                        Len(BooleanIndex(ps, logical_not(null_prisms(ps, dens)))))]

_discard_null_prisms(ps, dens) ==
    [prisms |-> BooleanIndex(ps, logical_not(null_prisms(ps, dens))),
     density |-> BooleanIndex(dens, logical_not(null_prisms(ps, dens)))]

(***************************************************************************)
(* choclo.prism._utils: whether a point lies on an edge of the prism that  *)
(* runs along the named axis (the vertices included).                      *)
(***************************************************************************)
is_point_on_easting_edge(easting, northing, upward, prism) ==
    /\ prism[1] <= easting /\ easting <= prism[2]
    /\ (northing = prism[3] \/ northing = prism[4])
    /\ (upward = prism[5] \/ upward = prism[6])

is_point_on_northing_edge(easting, northing, upward, prism) ==
    /\ (easting = prism[1] \/ easting = prism[2])
    /\ prism[3] <= northing /\ northing <= prism[4]
    /\ (upward = prism[5] \/ upward = prism[6])

is_point_on_upward_edge(easting, northing, upward, prism) ==
    /\ (easting = prism[1] \/ easting = prism[2])
    /\ (northing = prism[3] \/ northing = prism[4])
    /\ prism[5] <= upward /\ upward <= prism[6]

(***************************************************************************)
(* _any_singular_point_diagonal, _any_singular_point_non_diagonal: the     *)
(* loops return True at the first pair that matches, False after the last. *)
(***************************************************************************)
\* A check function passed as an argument is kept by its name.
check_func(name, easting, northing, upward, prism) ==
    CASE name = "is_point_on_easting_edge"
             -> is_point_on_easting_edge(easting, northing, upward, prism)
      [] name = "is_point_on_northing_edge"
             -> is_point_on_northing_edge(easting, northing, upward, prism)
      [] name = "is_point_on_upward_edge"
             -> is_point_on_upward_edge(easting, northing, upward, prism)

_any_singular_point_diagonal(coords, ps, check_func1, check_func2) ==
    \E l \in 1..Len(coords), m \in 1..Len(ps) :
        \/ check_func(check_func1, coords[l][1], coords[l][2], coords[l][3], ps[m])
        \/ check_func(check_func2, coords[l][1], coords[l][2], coords[l][3], ps[m])

_any_singular_point_non_diagonal(coords, ps, check_func1) ==
    \E l \in 1..Len(coords), m \in 1..Len(ps) :
        check_func(check_func1, coords[l][1], coords[l][2], coords[l][3], ps[m])

(***************************************************************************)
(* _check_singular_points: the value of any_singular_point at line 270,    *)
(* that is, whether warnings.warn is called.                               *)
(***************************************************************************)
_check_singular_points_NoNz(coords, ps, f) ==
    IF f = "g_ee"
    THEN _any_singular_point_diagonal(coords, ps,
             "is_point_on_northing_edge", "is_point_on_upward_edge")
    ELSE IF f = "g_nn"
    THEN _any_singular_point_diagonal(coords, ps,
             "is_point_on_easting_edge", "is_point_on_upward_edge")
    ELSE IF f = "g_zz"
    THEN _any_singular_point_diagonal(coords, ps,
             "is_point_on_easting_edge", "is_point_on_northing_edge")
    ELSE IF f = "g_en"
    THEN _any_singular_point_non_diagonal(coords, ps, "is_point_on_upward_edge")
    ELSE IF f = "g_ez"
    THEN _any_singular_point_non_diagonal(coords, ps, "is_point_on_northing_edge")
    ELSE FALSE

\* _check_singular_points with the check function of g_en passed for g_ez too.
_check_singular_points_EzUpward(coords, ps, f) ==
    IF f = "g_ee"
    THEN _any_singular_point_diagonal(coords, ps,
             "is_point_on_northing_edge", "is_point_on_upward_edge")
    ELSE IF f = "g_nn"
    THEN _any_singular_point_diagonal(coords, ps,
             "is_point_on_easting_edge", "is_point_on_upward_edge")
    ELSE IF f = "g_zz"
    THEN _any_singular_point_diagonal(coords, ps,
             "is_point_on_easting_edge", "is_point_on_northing_edge")
    ELSE IF f = "g_en"
    THEN _any_singular_point_non_diagonal(coords, ps, "is_point_on_upward_edge")
    ELSE IF f = "g_ez"
    THEN _any_singular_point_non_diagonal(coords, ps, "is_point_on_upward_edge")
    ELSE IF f = "g_nz"
    THEN _any_singular_point_non_diagonal(coords, ps, "is_point_on_easting_edge")
    ELSE FALSE

_check_singular_points(coords, ps, f) ==
    IF f = "g_ee"
    THEN _any_singular_point_diagonal(coords, ps,
             "is_point_on_northing_edge", "is_point_on_upward_edge")
    ELSE IF f = "g_nn"
    THEN _any_singular_point_diagonal(coords, ps,
             "is_point_on_easting_edge", "is_point_on_upward_edge")
    ELSE IF f = "g_zz"
    THEN _any_singular_point_diagonal(coords, ps,
             "is_point_on_easting_edge", "is_point_on_northing_edge")
    ELSE IF f = "g_en"
    THEN _any_singular_point_non_diagonal(coords, ps, "is_point_on_upward_edge")
    ELSE IF f = "g_ez"
    THEN _any_singular_point_non_diagonal(coords, ps, "is_point_on_northing_edge")
    ELSE IF f = "g_nz"
    THEN _any_singular_point_non_diagonal(coords, ps, "is_point_on_easting_edge")
    ELSE FALSE

\* The fields for which _check_singular_points runs a pass over the points
\* and the prisms.
ScannedFields == {"g_ee", "g_nn", "g_zz", "g_en", "g_ez", "g_nz"}

(***************************************************************************)
(* Values of the result array.  An element is the ordered sum of the       *)
(* kernel terms added to zero, and the factors it was multiplied by since, *)
(* in order.                                                               *)
(***************************************************************************)
SI_TO_MGAL == 100000
SI_TO_EOTVOS == 1000000000

Zero == [terms |-> <<>>, factors |-> <<>>]

zeros(n) == [l \in 1..n |-> Zero]

\* kernel(easting[l], northing[l], upward[l], prisms[m, :], density[m])
KernelTerm(f, point, prism, dens) ==
    [kernel |-> FIELDS[f], point |-> point, prism |-> prism, density |-> dens]

\* out[l] += term
AddAtWorker(out, l, term) ==
    [out EXCEPT ![owner[l]] = [@ EXCEPT !.terms = Append(@, term)]]

AddAt(out, l, term) ==
    [out EXCEPT ![l] = [@ EXCEPT !.terms = Append(@, term)]]

\* result *= factor
Times(res, factor) ==
    [l \in 1..Len(res) |-> [res[l] EXCEPT !.factors = Append(@, factor)]]

(***************************************************************************)
(* prism_gravity, lines 202-210: sign and units.                           *)
(***************************************************************************)
NormalizeScaleOnly(res, f) ==
    LET scaled == IF f \in {"g_e", "g_n", "g_z"} THEN Times(res, SI_TO_MGAL) ELSE res
    IN  IF f \in {"g_ee", "g_nn", "g_zz", "g_en", "g_ez", "g_nz"}
        THEN Times(scaled, SI_TO_EOTVOS) ELSE scaled

Normalize(res, f) ==
    LET signed == IF f \in {"g_z", "g_ez", "g_nz"} THEN Times(res, -1) ELSE res
        scaled == IF f \in {"g_e", "g_n", "g_z"} THEN Times(signed, SI_TO_MGAL) ELSE signed
    IN  IF f \in {"g_ee", "g_nn", "g_zz", "g_en", "g_ez", "g_nz"}
        THEN Times(scaled, SI_TO_EOTVOS) ELSE scaled

(***************************************************************************)
(* jit_prism_gravity run on one thread: the points in order, and for each  *)
(* point the prisms in order.                                              *)
(***************************************************************************)
jit_prism_gravity_serial(coords, ps, dens, f, out) ==
    [l \in 1..Len(out) |->
        [out[l] EXCEPT !.terms =
            @ \o [m \in 1..Len(ps) |-> KernelTerm(f, coords[l], ps[m], dens[m])]]]

(***************************************************************************)
(* prism_gravity as a function of its arguments, for a call without        *)
(* progress bar run on one thread: the exception raised, the number of     *)
(* warnings and the array returned.                                        *)
(***************************************************************************)
IndexError == [kind |-> "IndexError", exception |-> "IndexError", groups |-> <<>>]

Outcome(e, w, res) == [error |-> e, warnings |-> w, result |-> res]

prism_gravity(coords, ps, dens, f, skip) ==
    IF f \notin DOMAIN FIELDS
    THEN Outcome(UnknownField, 0, <<>>)
    ELSE IF ~skip /\ Len(dens) # Len(ps)
    THEN Outcome(DensityCountMismatch, 0, <<>>)
    ELSE IF ~skip /\ _check_prisms(ps).kind # "none"
    THEN Outcome(_check_prisms(ps), 0, <<>>)
    ELSE LET w == IF ~skip /\ _check_singular_points(coords, ps, f) THEN 1 ELSE 0
         IN  IF Len(dens) # Len(ps)
             THEN Outcome(IndexError, w, <<>>)
             ELSE Outcome(NoError, w,
                      Normalize(
                          jit_prism_gravity_serial(
                              coords,
                              _discard_null_prisms(ps, dens).prisms,
                              _discard_null_prisms(ps, dens).density,
                              f, zeros(Len(coords))),
                          f))

(***************************************************************************)
(* Variables a specification of one function alone leaves idle.            *)
(***************************************************************************)
IdleArguments ==
    /\ field = None
    /\ coordinates = <<>>
    /\ disable_checks = None
    /\ progressbar = None
    /\ parallel = None

IdleEngine ==
    /\ result = <<>>
    /\ warnings = 0
    /\ trace = <<>>
    /\ progress_proxy = NoProgress
    /\ owner = <<>>
    /\ inner = <<>>
    /\ finished = {}
    /\ baseline = <<>>
    /\ ProgressBar = None

(***************************************************************************)
(* SpecCheck: _check_prisms applied to every collection of prisms.         *)
(***************************************************************************)
InitCheck ==
    /\ pc = "check_prisms"
    /\ prisms \in SeqsUpTo(AllPrisms, MaxPrisms)
    /\ density = <<>>
    /\ given = NoArrays
    /\ error = NoError
    /\ IdleArguments
    /\ IdleEngine

RunCheckPrisms ==
    /\ pc = "check_prisms"
    /\ error' = _check_prisms(prisms)
    /\ pc' = IF error'.kind = "none" THEN "checked" ELSE "raised"
    /\ UNCHANGED <<field, coordinates, prisms, density, disable_checks,
                   progressbar, parallel, result, warnings, trace,
                   progress_proxy, owner, inner, finished, baseline, given, ProgressBar>>

NextCheck == RunCheckPrisms

SpecCheck == InitCheck /\ [][NextCheck]_vars

Violates(prism, constraint) ==
    CASE constraint = "west_east" -> prism[1] > prism[2]
      [] constraint = "south_north" -> prism[3] > prism[4]
      [] constraint = "bottom_top" -> prism[5] > prism[6]

Constraints == <<"west_east", "south_north", "bottom_top">>

ListedUnder(constraint) ==
    UNION {Range(error.groups[g].invalid) :
           g \in {h \in 1..Len(error.groups) : error.groups[h].constraint = constraint}}

CheckRan == pc \in {"checked", "raised"}

AnyViolation ==
    \E i \in 1..Len(prisms), c \in 1..3 : Violates(prisms[i], Constraints[c])

FirstViolated ==
    Constraints[CHOOSE c \in 1..3 :
        /\ \E i \in 1..Len(prisms) : Violates(prisms[i], Constraints[c])
        /\ \A d \in 1..(c - 1) :
              \A i \in 1..Len(prisms) : ~Violates(prisms[i], Constraints[d])]

FilterPrisms ==
    {<<0, east, 0, north, 0, top>> :
        east \in {0, 1, MaxCoord}, north \in PrismBounds, top \in PrismBounds}

FilterDensities == {0, 1, MaxDensity + 1}

MaxFilterPrisms == MaxPrisms + 1

InitFilter ==
    /\ pc = "discard_null_prisms"
    /\ prisms \in SeqsUpTo(FilterPrisms, MaxFilterPrisms)
    /\ density \in [1..Len(prisms) -> FilterDensities]
    /\ given = [prisms |-> prisms, density |-> density]
    /\ error = NoError
    /\ IdleArguments
    /\ IdleEngine

RunDiscardNullPrisms ==
    /\ pc = "discard_null_prisms"
    /\ prisms' = _discard_null_prisms(prisms, density).prisms
    /\ density' = _discard_null_prisms(prisms, density).density
    /\ pc' = "discarded"
    /\ UNCHANGED <<field, coordinates, disable_checks, progressbar, parallel,
                   result, error, warnings, trace, progress_proxy, owner,
                   inner, finished, baseline, given, ProgressBar>>

NextFilter == RunDiscardNullPrisms

SpecFilter == InitFilter /\ [][NextFilter]_vars

\* The indices of the entries the claim says survive.
Survivors ==
    {i \in 1..Len(given.prisms) :
        /\ given.prisms[i][1] # given.prisms[i][2]
        /\ given.prisms[i][3] # given.prisms[i][4]
        /\ given.prisms[i][5] # given.prisms[i][6]
        /\ given.density[i] # 0}

\* The k-th survivor in input order.
KthSurvivor(k) ==
    CHOOSE i \in Survivors : Cardinality({j \in Survivors : j <= i}) = k

\* C4: the null-prism filter returns exactly the entries whose prism has
\* west # east, south # north, bottom # top and whose density is not zero, in
\* their input order, each prism still paired with its own density.
C4_FilterKeepsExactlyNonNull ==
    pc = "discarded" =>
        /\ Len(prisms) = Cardinality(Survivors)
        /\ Len(density) = Cardinality(Survivors)
        /\ \A k \in 1..Len(prisms) :
              /\ prisms[k] = given.prisms[KthSurvivor(k)]
              /\ density[k] = given.density[KthSurvivor(k)]

\* C4 witness: of three entries the second, of zero density, is dropped; the
\* first and the third, two different prisms with two different densities,
\* survive in that order, each with its own density.
C4_Witness ==
    /\ pc = "discarded"
    /\ Len(given.prisms) = 3
    /\ given.density[2] = 0
    /\ Survivors = {1, 3}
    /\ given.prisms[1] # given.prisms[3]
    /\ given.density[1] # given.density[3]
    /\ prisms = <<given.prisms[1], given.prisms[3]>>
    /\ density = <<given.density[1], given.density[3]>>

(***************************************************************************)
(* Spec: one call of prism_gravity, from its first statement to its        *)
(* return or to the exception it raises.                                   *)
(***************************************************************************)
\* The observation points and the prisms of the calls: the points of the
\* diagonal of the grid but the last, and the prisms that span the grid on
\* every axis but at most one, on which they have zero extent or their two
\* boundaries swapped.
CallPoints == {<<c, c, c>> : c \in 0..(MaxCoord - 1)}

AxisKinds == {<<0, MaxCoord>>, <<0, 0>>, <<MaxCoord, 0>>}

CallPrisms ==
    {p \in AllPrisms :
        /\ \A a \in 1..3 : <<p[2 * a - 1], p[2 * a]>> \in AxisKinds
        /\ Cardinality({a \in 1..3 : <<p[2 * a - 1], p[2 * a]>> # <<0, MaxCoord>>}) <= 1}

Init ==
    /\ pc = "call"
    /\ field \in FieldInputs
    /\ coordinates \in SeqsUpTo(CallPoints, MaxPoints)
    /\ prisms \in SeqsUpTo(CallPrisms, MaxPrisms)
    /\ density \in SeqsUpTo(Densities, MaxPrisms)
    /\ disable_checks \in BOOLEAN
    /\ progressbar \in BOOLEAN
    /\ parallel \in BOOLEAN
    /\ ProgressBar \in {None, "ProgressBar"}
    /\ given = [prisms |-> prisms, density |-> density]
    /\ error = NoError
    /\ result = <<>>
    /\ warnings = 0
    /\ trace = <<>>
    /\ progress_proxy = NoProgress
    /\ owner = <<>>
    /\ inner = <<>>
    /\ finished = {}
    /\ baseline = <<>>

Raise(e) ==
    /\ error' = e
    /\ pc' = "raised"

\* Lines 163-164.
FieldLookupSkipped == TRUE

FieldLookup == field \in FieldTags

CheckField ==
    /\ pc = "call"
    /\ trace' = Append(trace, "field")
    /\ IF FieldLookup
       THEN pc' = "build" /\ UNCHANGED error
       ELSE Raise(UnknownField)
    /\ UNCHANGED <<field, coordinates, prisms, density, disable_checks,
                   progressbar, parallel, result, warnings, progress_proxy,
                   owner, inner, finished, baseline, given, ProgressBar>>

\* Lines 165-171: the output array and the input arrays.
BuildArrays ==
    /\ pc = "build"
    /\ trace' = Append(trace, "build")
    /\ result' = zeros(Len(coordinates))
    /\ pc' = "checks"
    /\ UNCHANGED <<field, coordinates, prisms, density, disable_checks,
                   progressbar, parallel, error, warnings, progress_proxy,
                   owner, inner, finished, baseline, given, ProgressBar>>

\* Lines 173-179 without the test of disable_checks.
SanityChecksAlways ==
    /\ pc = "checks"
    /\ trace' = Append(trace, "validate")
    /\ IF Len(density) # Len(prisms)
       THEN Raise(DensityCountMismatch)
       ELSE IF _check_prisms(prisms).kind # "none"
       THEN Raise(_check_prisms(prisms))
       ELSE pc' = "scan" /\ UNCHANGED error
    /\ UNCHANGED <<field, coordinates, prisms, density, disable_checks,
                   progressbar, parallel, result, warnings, progress_proxy,
                   owner, inner, finished, baseline, given, ProgressBar>>

\* Lines 173-179 with the singular-point check called ahead of the validation.
SanityChecksAfterScan ==
    /\ pc = "checks"
    /\ IF disable_checks
       THEN pc' = "filter" /\ UNCHANGED <<error, trace, warnings>>
       ELSE /\ trace' = IF field \in ScannedFields
                        THEN trace \o <<"scan", "validate">>
                        ELSE Append(trace, "validate")
            /\ warnings' = IF _check_singular_points(coordinates, prisms, field)
                           THEN warnings + 1 ELSE warnings
            /\ IF Len(density) # Len(prisms)
               THEN Raise(DensityCountMismatch)
               ELSE IF _check_prisms(prisms).kind # "none"
               THEN Raise(_check_prisms(prisms))
               ELSE pc' = "filter" /\ UNCHANGED error
    /\ UNCHANGED <<field, coordinates, prisms, density, disable_checks,
                   progressbar, parallel, result, progress_proxy,
                   owner, inner, finished, baseline, given, ProgressBar>>

\* Lines 173-179: the density count and _check_prisms.
SanityChecks ==
    /\ pc = "checks"
    /\ IF disable_checks
       THEN pc' = "filter" /\ UNCHANGED <<error, trace>>
       ELSE /\ trace' = Append(trace, "validate")
            /\ IF Len(density) # Len(prisms)
               THEN Raise(DensityCountMismatch)
               ELSE IF _check_prisms(prisms).kind # "none"
               THEN Raise(_check_prisms(prisms))
               ELSE pc' = "scan" /\ UNCHANGED error
    /\ UNCHANGED <<field, coordinates, prisms, density, disable_checks,
                   progressbar, parallel, result, warnings, progress_proxy,
                   owner, inner, finished, baseline, given, ProgressBar>>

\* Line 180 with the scanner that raises (lines 308-341) in place of the one
\* that warns.
SingularPoint == [kind |-> "SingularPoint", exception |-> "ValueError", groups |-> <<>>]

CheckSingularPointsRaising ==
    /\ pc = "scan"
    /\ trace' = IF field \in ScannedFields THEN Append(trace, "scan") ELSE trace
    /\ IF _check_singular_points(coordinates, prisms, field)
       THEN Raise(SingularPoint)
       ELSE pc' = "filter" /\ UNCHANGED error
    /\ UNCHANGED <<field, coordinates, prisms, density, disable_checks,
                   progressbar, parallel, result, warnings, progress_proxy,
                   owner, inner, finished, baseline, given, ProgressBar>>

\* Line 180 called on the prisms that the null-prism filter keeps.
CheckSingularPointsOnSurvivors ==
    /\ pc = "scan"
    /\ trace' = IF field \in ScannedFields THEN Append(trace, "scan") ELSE trace
    /\ warnings' = IF _check_singular_points(
                          coordinates, _discard_null_prisms(prisms, density).prisms, field)
                   THEN warnings + 1 ELSE warnings
    /\ pc' = "filter"
    /\ UNCHANGED <<field, coordinates, prisms, density, disable_checks,
                   progressbar, parallel, result, error, progress_proxy,
                   owner, inner, finished, baseline, given, ProgressBar>>

\* Line 180: _check_singular_points, with its warning.
CheckSingularPoints ==
    /\ pc = "scan"
    /\ trace' = IF field \in ScannedFields THEN Append(trace, "scan") ELSE trace
    /\ warnings' = IF _check_singular_points(coordinates, prisms, field)
                   THEN warnings + 1 ELSE warnings
    /\ pc' = "filter"
    /\ UNCHANGED <<field, coordinates, prisms, density, disable_checks,
                   progressbar, parallel, result, error, progress_proxy,
                   owner, inner, finished, baseline, given, ProgressBar>>

\* Line 182: _discard_null_prisms.  With a density count other than the prism
\* count (which only a call that skips the checks brings here) the boolean
\* mask does not fit and numpy raises IndexError.
DiscardNullPrisms ==
    /\ pc = "filter"
    /\ trace' = Append(trace, "filter")
    /\ IF Len(density) # Len(prisms)
       THEN Raise(IndexError) /\ UNCHANGED <<prisms, density>>
       ELSE /\ prisms' = _discard_null_prisms(prisms, density).prisms
            /\ density' = _discard_null_prisms(prisms, density).density
            /\ pc' = "progress"
            /\ UNCHANGED error
    /\ UNCHANGED <<field, coordinates, disable_checks, progressbar, parallel,
                   result, warnings, progress_proxy, owner, inner, finished,
                   baseline, given, ProgressBar>>

\* Lines 184-191.
SetupProgress ==
    /\ pc = "progress"
    /\ IF progressbar
       THEN IF ProgressBar = None
            THEN Raise(MissingProgressDependency) /\ UNCHANGED progress_proxy
            ELSE /\ progress_proxy' = [made |-> TRUE, total |-> Len(coordinates),
                                       n |-> 0, closed |-> FALSE]
                 /\ pc' = "dispatch"
                 /\ UNCHANGED error
       ELSE /\ progress_proxy' = NoProgress
            /\ pc' = "dispatch"
            /\ UNCHANGED error
    /\ UNCHANGED <<field, coordinates, prisms, density, disable_checks,
                   progressbar, parallel, result, warnings, trace, owner,
                   inner, finished, baseline, given, ProgressBar>>

\* Lines 193-198: the call of forward_func.  The parallel function hands each
\* index of the prange to one of its threads; the serial one runs them all on
\* one.
Dispatch ==
    /\ pc = "dispatch"
    /\ trace' = Append(trace, "accumulate")
    /\ IF parallel
       THEN owner' \in [1..Len(coordinates) -> 1..NumWorkers]
       ELSE owner' = [l \in 1..Len(coordinates) |-> 1]
    /\ inner' = [l \in 1..Len(coordinates) |-> 0]
    /\ finished' = {}
    /\ pc' = "accumulate"
    /\ UNCHANGED <<field, coordinates, prisms, density, disable_checks,
                   progressbar, parallel, result, error, warnings,
                   progress_proxy, baseline, given, ProgressBar>>

\* The index a thread is at: the first of its indices not yet finished.
Current(l) ==
    /\ l \notin finished
    /\ \A k \in 1..(l - 1) : owner[k] = owner[l] => k \in finished

\* Lines 445-448 with the first prism read at every pass.
AccumulateFirstPrism(l) ==
    /\ pc = "accumulate"
    /\ l \in 1..Len(coordinates)
    /\ Current(l)
    /\ inner[l] < Len(prisms)
    /\ result' = AddAt(result, l,
                       KernelTerm(field, coordinates[l], prisms[1],
                                  density[inner[l] + 1]))
    /\ inner' = [inner EXCEPT ![l] = @ + 1]
    /\ UNCHANGED <<pc, field, coordinates, prisms, density, disable_checks,
                   progressbar, parallel, error, warnings, trace,
                   progress_proxy, owner, finished, baseline, given, ProgressBar>>

\* Lines 445-448: one pass of the loop over the prisms, for point l.
Accumulate(l) ==
    /\ pc = "accumulate"
    /\ l \in 1..Len(coordinates)
    /\ Current(l)
    /\ inner[l] < Len(prisms)
    /\ result' = AddAt(result, l,
                       KernelTerm(field, coordinates[l], prisms[inner[l] + 1],
                                  density[inner[l] + 1]))
    /\ inner' = [inner EXCEPT ![l] = @ + 1]
    /\ UNCHANGED <<pc, field, coordinates, prisms, density, disable_checks,
                   progressbar, parallel, error, warnings, trace,
                   progress_proxy, owner, finished, baseline, given, ProgressBar>>

\* Lines 449-451 with the update moved into the loop over the prisms, made at
\* its last pass: a point with no prism to loop over updates nothing.
FinishPointUpdateInLoop(l) ==
    /\ pc = "accumulate"
    /\ l \in 1..Len(coordinates)
    /\ Current(l)
    /\ inner[l] = Len(prisms)
    /\ finished' = finished \cup {l}
    /\ progress_proxy' = IF progress_proxy.made /\ Len(prisms) > 0
                         THEN [progress_proxy EXCEPT !.n = @ + 1]
                         ELSE progress_proxy
    /\ UNCHANGED <<pc, field, coordinates, prisms, density, disable_checks,
                   progressbar, parallel, result, error, warnings, trace,
                   owner, inner, baseline, given, ProgressBar>>

\* Lines 449-451: the end of the iteration for point l.
FinishPoint(l) ==
    /\ pc = "accumulate"
    /\ l \in 1..Len(coordinates)
    /\ Current(l)
    /\ inner[l] = Len(prisms)
    /\ finished' = finished \cup {l}
    /\ progress_proxy' = IF progress_proxy.made
                         THEN [progress_proxy EXCEPT !.n = @ + 1]
                         ELSE progress_proxy
    /\ UNCHANGED <<pc, field, coordinates, prisms, density, disable_checks,
                   progressbar, parallel, result, error, warnings, trace,
                   owner, inner, baseline, given, ProgressBar>>

\* Lines 199-201 reached as soon as one point has finished, the other threads
\* not waited for.
JoinAndCloseEarly ==
    /\ pc = "accumulate"
    /\ finished # {}
    /\ progress_proxy' = IF progress_proxy.made
                         THEN [progress_proxy EXCEPT !.closed = TRUE]
                         ELSE progress_proxy
    /\ pc' = "normalize"
    /\ UNCHANGED <<field, coordinates, prisms, density, disable_checks,
                   progressbar, parallel, result, error, warnings, trace,
                   owner, inner, finished, baseline, given, ProgressBar>>

\* forward_func returns when every thread has ended; lines 199-201.
JoinAndClose ==
    /\ pc = "accumulate"
    /\ finished = 1..Len(coordinates)
    /\ progress_proxy' = IF progress_proxy.made
                         THEN [progress_proxy EXCEPT !.closed = TRUE]
                         ELSE progress_proxy
    /\ pc' = "normalize"
    /\ UNCHANGED <<field, coordinates, prisms, density, disable_checks,
                   progressbar, parallel, result, error, warnings, trace,
                   owner, inner, finished, baseline, given, ProgressBar>>

\* Lines 202-210.
NormalizeResult ==
    /\ pc = "normalize"
    /\ trace' = Append(trace, "normalize")
    /\ result' = Normalize(result, field)
    /\ pc' = "return"
    /\ UNCHANGED <<field, coordinates, prisms, density, disable_checks,
                   progressbar, parallel, error, warnings, progress_proxy,
                   owner, inner, finished, baseline, given, ProgressBar>>

\* Line 211.
Return ==
    /\ pc = "return"
    /\ trace' = Append(trace, "return")
    /\ pc' = "done"
    /\ UNCHANGED <<field, coordinates, prisms, density, disable_checks,
                   progressbar, parallel, result, error, warnings,
                   progress_proxy, owner, inner, finished, baseline, given, ProgressBar>>

Next ==
    \/ CheckField
    \/ BuildArrays
    \/ SanityChecks
    \/ CheckSingularPoints
    \/ DiscardNullPrisms
    \/ SetupProgress
    \/ Dispatch
    \/ \E l \in 1..MaxPoints : Accumulate(l)
    \/ \E l \in 1..MaxPoints : FinishPoint(l)
    \/ JoinAndClose
    \/ NormalizeResult
    \/ Return

Spec == Init /\ [][Next]_vars

Steps == Range(trace)

StructuralErrors ==
    {"UnknownField", "DensityCountMismatch", "InvalidGeometry", "MissingProgressDependency"}

NoKernelTerm == \A l \in 1..Len(result) : result[l].terms = <<>>

\* C2 (as claimed): when a structural error is raised, no singularity scan and
\* no kernel accumulation of that call has run and no warning was emitted.
C2_NoWorkBeforeAnyStructuralError ==
    (pc = "raised" /\ error.kind \in StructuralErrors) =>
        /\ "scan" \notin Steps
        /\ "accumulate" \notin Steps
        /\ NoKernelTerm
        /\ warnings = 0

\* C2 (amended): UnknownField, DensityCountMismatch and InvalidGeometry are
\* raised before any singularity scan, warning or kernel accumulation of the
\* call.  MissingProgressDependency is raised before any kernel accumulation,
\* but after the validation, the singularity scan (with its warning, if a
\* point is singular) and the null-prism filter; only for a call that skips
\* the checks has no scan run and no warning been emitted by then.
C2_StructuralErrorsBeforeAccumulation ==
    (pc = "raised" /\ error.kind \in StructuralErrors) =>
        /\ "accumulate" \notin Steps
        /\ NoKernelTerm
        /\ error.kind # "MissingProgressDependency"
              => ("scan" \notin Steps /\ warnings = 0 /\ "filter" \notin Steps)
        /\ error.kind = "MissingProgressDependency"
              => /\ "filter" \in Steps
                 /\ disable_checks => ("scan" \notin Steps /\ warnings = 0)
                 /\ (~disable_checks /\ field \in ScannedFields) => "scan" \in Steps

\* C2 witness: MissingProgressDependency is raised after the scan has run and
\* the warning was emitted.
C2_Witness ==
    /\ pc = "raised"
    /\ error.kind = "MissingProgressDependency"
    /\ "scan" \in Steps
    /\ warnings = 1

\* C3: a field tag outside the registry makes the call fail with UnknownField
\* as its first step, whatever the other arguments are: nothing else of the
\* call has run, no array is built and no warning emitted.
C3_UnknownFieldFirst ==
    /\ (field \notin FieldTags /\ pc # "call") =>
          /\ pc = "raised"
          /\ error = UnknownField
          /\ trace = <<"field">>
          /\ result = <<>>
          /\ warnings = 0
          /\ prisms = given.prisms /\ density = given.density
    /\ error.kind = "UnknownField" => field \notin FieldTags

\* C3 witness: UnknownField is raised by a call that skips the checks, asks
\* for progress without the backend, and has a density count other than the
\* prism count and a prism with west > east.
C3_Witness ==
    /\ pc = "raised"
    /\ error.kind = "UnknownField"
    /\ disable_checks
    /\ progressbar /\ ProgressBar = None
    /\ Len(given.density) # Len(given.prisms)
    /\ \E m \in 1..Len(given.prisms) : given.prisms[m][1] > given.prisms[m][2]

\* The array the serial function returns for the arrays the accumulation is
\* given, after sign and units.
SerialResult ==
    Normalize(jit_prism_gravity_serial(coordinates, prisms, density, field,
                                       zeros(Len(coordinates))), field)

\* C6: a call returns, with parallel true, under every assignment of the
\* points to the threads and every interleaving of the threads, the array the
\* serial run returns: for each point the same ordered sum over the prisms.
C6_ParallelEqualsSerial ==
    pc = "done" => result = SerialResult

\* C6 witness: a parallel call whose two points went to different threads, with
\* two prisms each, has returned.
C6_Witness ==
    /\ pc = "done"
    /\ parallel
    /\ Len(coordinates) = 2
    /\ owner[1] # owner[2]
    /\ Len(prisms) = 2
    /\ prisms[1] # prisms[2]
    /\ coordinates[1] # coordinates[2]

RECURSIVE Product(_)
Product(factors) ==
    IF factors = <<>> THEN 1 ELSE Head(factors) * Product(Tail(factors))

SignOf(f) == IF f \in {"g_z", "g_ez", "g_nz"} THEN -1 ELSE 1

ScaleOf(f) ==
    CASE f \in {"g_e", "g_n", "g_z"} -> 100000
      [] f \in {"g_ee", "g_nn", "g_zz", "g_en", "g_ez", "g_nz"} -> 1000000000
      [] OTHER -> 1

Count(factors, x) == Cardinality({i \in 1..Len(factors) : factors[i] = x})

\* C7: the returned value is the raw kernel sum times -1 for g_z, g_ez, g_nz
\* and +1 for the other tags, then times 1e5 for g_e, g_n, g_z, times 1e9 for
\* the six tensor tags, unscaled for potential; the sign flip and one scale
\* factor at most are applied, once, after the accumulation and not before.
C7_SignAndUnitsOnce ==
    /\ pc \in {"return", "done"} =>
          \A l \in 1..Len(result) :
              /\ Product(result[l].factors) = SignOf(field) * ScaleOf(field)
              /\ Count(result[l].factors, -1) = (IF SignOf(field) = -1 THEN 1 ELSE 0)
              /\ Count(result[l].factors, 100000) + Count(result[l].factors, 1000000000)
                    = (IF ScaleOf(field) = 1 THEN 0 ELSE 1)
              /\ Len(result[l].factors) <= 2
              /\ Len(result[l].factors) = 2 => result[l].factors[1] = -1
              /\ Len(result[l].terms) = Len(prisms)
    /\ pc \notin {"return", "done"} =>
          \A l \in 1..Len(result) : result[l].factors = <<>>

\* C7 witness: a call for g_ez has returned a value that is a kernel sum
\* negated and then scaled to Eotvos.
C7_Witness ==
    /\ pc = "done"
    /\ field = "g_ez"
    /\ result[1].terms # <<>>
    /\ result[1].factors = <<-1, 1000000000>>

\* The call as a whole returns what prism_gravity, the function of its
\* arguments, gives: the two renderings of the code agree.
CallAgreesWithFunction ==
    pc = "done" =>
        /\ result = prism_gravity(coordinates, given.prisms, given.density, field,
                                  disable_checks).result
        /\ warnings = prism_gravity(coordinates, given.prisms, given.density, field,
                                    disable_checks).warnings

(***************************************************************************)
(* SpecScan: _check_singular_points applied to every field tag, to points  *)
(* of the whole grid and to valid prisms with a corner at the origin.      *)
(***************************************************************************)
ScanPrisms ==
    {p \in AllPrisms : p[1] = 0 /\ p[3] = 0 /\ p[5] = 0}

InitScan ==
    /\ pc = "check_singular_points"
    /\ field \in FieldTags
    /\ coordinates \in SeqsUpTo(Points, MaxPoints)
    /\ prisms \in SeqsUpTo(ScanPrisms, MaxPrisms)
    /\ density = <<>>
    /\ disable_checks = FALSE
    /\ progressbar = None
    /\ parallel = None
    /\ given = NoArrays
    /\ error = NoError
    /\ IdleEngine

RunCheckSingularPoints ==
    /\ pc = "check_singular_points"
    /\ trace' = IF field \in ScannedFields THEN Append(trace, "scan") ELSE trace
    /\ warnings' = IF _check_singular_points(coordinates, prisms, field)
                   THEN warnings + 1 ELSE warnings
    /\ pc' = "scanned"
    /\ UNCHANGED <<field, coordinates, prisms, density, disable_checks,
                   progressbar, parallel, result, error, progress_proxy,
                   owner, inner, finished, baseline, given, ProgressBar>>

NextScan == RunCheckSingularPoints

SpecScan == InitScan /\ [][NextScan]_vars

TensorTags == {"g_ee", "g_nn", "g_zz", "g_en", "g_ez", "g_nz"}

IsVertex(point, prism) ==
    /\ point[1] \in {prism[1], prism[2]}
    /\ point[2] \in {prism[3], prism[4]}
    /\ point[3] \in {prism[5], prism[6]}

StrictlyInside(point, prism) ==
    /\ prism[1] < point[1] /\ point[1] < prism[2]
    /\ prism[3] < point[2] /\ point[2] < prism[4]
    /\ prism[5] < point[3] /\ point[3] < prism[6]

\* C8: with the check run, a point on a vertex of some prism gives the warning
\* for each of the six tensor tags; a single prism with every point strictly
\* inside it gives no warning for any tag; and for potential, g_e, g_n, g_z no
\* scan is run and no warning is given.
C8_VertexWarnsInsideDoesNot ==
    pc = "scanned" =>
        /\ (/\ field \in TensorTags
            /\ \E l \in 1..Len(coordinates), m \in 1..Len(prisms) :
                  IsVertex(coordinates[l], prisms[m]))
              => warnings = 1
        /\ (/\ Len(prisms) = 1
            /\ \A l \in 1..Len(coordinates) : StrictlyInside(coordinates[l], prisms[1]))
              => warnings = 0
        /\ field \notin TensorTags => (warnings = 0 /\ "scan" \notin Steps)
        /\ field \in TensorTags => "scan" \in Steps

\* C8 witness: for g_nz, of two points and two prisms only the second point is
\* a vertex, of the second prism only, and the warning was given.
C8_Witness ==
    /\ pc = "scanned"
    /\ field = "g_nz"
    /\ Len(coordinates) = 2 /\ Len(prisms) = 2
    /\ IsVertex(coordinates[2], prisms[2])
    /\ ~IsVertex(coordinates[2], prisms[1])
    /\ StrictlyInside(coordinates[1], prisms[2])
    /\ warnings = 1

(***************************************************************************)
(* SpecNull: prism_gravity applied to a valid collection of prisms and to  *)
(* the same collection with one null prism appended.                       *)
(***************************************************************************)
ValidCallPrisms ==
    {p \in CallPrisms : p[1] <= p[2] /\ p[3] <= p[4] /\ p[5] <= p[6]}

IsNull(prism, dens) ==
    \/ dens = 0
    \/ prism[1] = prism[2]
    \/ prism[3] = prism[4]
    \/ prism[5] = prism[6]

InitNull ==
    /\ pc = "null_invariance"
    /\ field \in FieldTags
    /\ coordinates \in SeqsUpTo(CallPoints, MaxPoints)
    /\ prisms \in SeqsUpTo(ValidCallPrisms, MaxPrisms)
    /\ density \in [1..Len(prisms) -> Densities]
    /\ disable_checks \in BOOLEAN
    /\ progressbar = FALSE
    /\ parallel = FALSE
    /\ \E p \in ValidCallPrisms, d \in Densities :
          /\ IsNull(p, d)
          /\ given = [prisms |-> Append(prisms, p), density |-> Append(density, d)]
    /\ error = NoError
    /\ IdleEngine

RunNullInvariance ==
    /\ pc = "null_invariance"
    /\ baseline' = prism_gravity(coordinates, prisms, density, field,
                                 disable_checks).result
    /\ result' = prism_gravity(coordinates, given.prisms, given.density, field,
                               disable_checks).result
    /\ error' = prism_gravity(coordinates, given.prisms, given.density, field,
                              disable_checks).error
    /\ warnings' = warnings
                    + prism_gravity(coordinates, prisms, density, field,
                                    disable_checks).warnings
                    + prism_gravity(coordinates, given.prisms, given.density,
                                    field, disable_checks).warnings
    /\ pc' = "compared"
    /\ UNCHANGED <<field, coordinates, prisms, density, disable_checks,
                   progressbar, parallel, trace, progress_proxy,
                   owner, inner, finished, given, ProgressBar>>

NextNull == RunNullInvariance

SpecNull == InitNull /\ [][NextNull]_vars

\* C5: the call on a valid collection with one prism appended that has zero
\* density or zero extent on some axis returns, element by element, the array
\* the call on the collection alone returns.
C5_NullPrismInvariance ==
    pc = "compared" =>
        /\ error = NoError
        /\ Len(result) = Len(coordinates)
        /\ result = baseline

\* C5 witness: a prism of zero extent and non-zero density was appended to a
\* collection whose result has kernel terms, and the two arrays are equal.
C5_Witness ==
    /\ pc = "compared"
    /\ given.density[Len(given.density)] # 0
    /\ baseline[1].terms # <<>>
    /\ result = baseline

(***************************************************************************)
(* Claims on the call about singular points and skipped checks.            *)
(***************************************************************************)
\* A tensor field and valid arrays in which some point lies on a singularity
\* of some prism.
SingularInput ==
    /\ field \in TensorTags
    /\ Len(given.density) = Len(given.prisms)
    /\ \A m \in 1..Len(given.prisms) :
          \A c \in 1..3 : ~Violates(given.prisms[m], Constraints[c])
    /\ _check_singular_points(coordinates, given.prisms, field)

BackendMissing == progressbar /\ ProgressBar = None

BeforeScan == pc \in {"call", "build", "checks", "scan"}

Completes ==
    /\ pc # "raised"
    /\ pc = "done" \/ ENABLED Next
    /\ pc = "done" => (Len(result) = Len(coordinates) /\ "accumulate" \in Steps)

\* C9 (as claimed): for a tensor field and a valid input with singular points
\* the call raises no exception, emits exactly one warning, runs the
\* accumulation and returns one value for every observation point.
C9_SingularPointWarnsOnceAndCompletes ==
    SingularInput =>
        /\ Completes
        /\ warnings <= 1
        /\ pc = "done" => warnings = 1

\* C9 (amended): for a tensor field and a valid input with singular points, a
\* call with the checks enabled emits exactly one warning, at the scan, and a
\* call that skips the checks emits none; in both cases the call raises no
\* exception, runs the accumulation and returns one value for every
\* observation point, unless progress reporting is requested while its backend
\* is missing: then MissingProgressDependency is raised (after the warning),
\* and it is the only exception such a call raises.
C9_SingularPointNeverAborts ==
    SingularInput =>
        /\ ~BackendMissing => Completes
        /\ pc = "raised" => error.kind = "MissingProgressDependency"
        /\ disable_checks => warnings = 0
        /\ ~disable_checks => warnings = (IF BeforeScan THEN 0 ELSE 1)

\* C9 witness: a call with the checks enabled has returned two values after
\* one warning, both points lying on vertices of both prisms.
C9_Witness ==
    /\ pc = "done"
    /\ SingularInput
    /\ ~disable_checks
    /\ Len(coordinates) = 2 /\ Len(given.prisms) = 2
    /\ \A l \in 1..2, m \in 1..2 : IsVertex(coordinates[l], given.prisms[m])
    /\ warnings = 1
    /\ Len(result) = 2
    /\ result[1].terms # <<>>

SkipsChecks ==
    /\ disable_checks
    /\ field \in FieldTags
    /\ Len(given.density) = Len(given.prisms)

\* C10 (as claimed): with the checks skipped, a known field tag and as many
\* densities as prisms, the call never raises InvalidGeometry, never scans or
\* warns, and completes with one value per observation point.
C10_SkippedChecksAlwaysComplete ==
    SkipsChecks =>
        /\ error.kind # "InvalidGeometry"
        /\ "scan" \notin Steps /\ "validate" \notin Steps
        /\ warnings = 0
        /\ Completes

\* C10 (amended): with the checks skipped, a known field tag and as many
\* densities as prisms, the call never raises InvalidGeometry and never scans
\* or warns, whatever the prism boundaries and the points are; it completes
\* with one value per observation point unless progress reporting is requested
\* while its backend is missing, in which case it raises
\* MissingProgressDependency and nothing else.
C10_SkippedChecksNeverValidate ==
    SkipsChecks =>
        /\ error.kind # "InvalidGeometry"
        /\ "scan" \notin Steps /\ "validate" \notin Steps
        /\ warnings = 0
        /\ ~BackendMissing => Completes
        /\ pc = "raised" => (BackendMissing /\ error.kind = "MissingProgressDependency")

\* C10 witness: a call that skips the checks has returned one value per point
\* for prisms with west > east and with bottom > top, one point at a vertex.
C10_Witness ==
    /\ pc = "done"
    /\ SkipsChecks
    /\ Len(given.prisms) = 2
    /\ given.prisms[1][1] > given.prisms[1][2]
    /\ given.prisms[2][5] > given.prisms[2][6]
    /\ \E l \in 1..Len(coordinates) : IsVertex(coordinates[l], given.prisms[1])
    /\ Len(result) = Len(coordinates)
    /\ result[1].terms # <<>>

(***************************************************************************)
(* Claims on the call about the progress bar.                              *)
(***************************************************************************)
AfterAccumulation == pc \in {"normalize", "return", "done"}

\* C11: a call that asks for progress with the backend present makes the
\* progress bar with total equal to the number of observation points; the bar
\* has received, at every moment, one increment for each point whose iteration
\* has ended and no other, so that when the accumulation has finished the
\* increments sum to the number of points, on one thread and on several under
\* every interleaving, also when the null-prism filter left no prism; and the
\* bar is closed only after every point has finished, and is closed by then.
\* A call that does not ask for progress makes no bar.
C11_OneIncrementPerPoint ==
    /\ progress_proxy.made =>
          /\ progressbar /\ ProgressBar # None
          /\ progress_proxy.total = Len(coordinates)
          /\ progress_proxy.n = Cardinality(finished)
          /\ progress_proxy.n <= progress_proxy.total
          /\ progress_proxy.closed =>
                (AfterAccumulation /\ finished = 1..Len(coordinates))
    /\ (AfterAccumulation /\ progressbar) =>
          /\ progress_proxy.made
          /\ progress_proxy.n = Len(coordinates)
          /\ progress_proxy.closed
    /\ ~progressbar => progress_proxy = NoProgress

\* C11 witness: a parallel call with progress whose two points went to
\* different threads, with two prisms each, has returned: the bar has two
\* increments and is closed.
C11_Witness ==
    /\ pc = "done"
    /\ parallel /\ progressbar
    /\ Len(coordinates) = 2
    /\ owner[1] # owner[2]
    /\ Len(prisms) = 2
    /\ progress_proxy.made
    /\ progress_proxy.total = 2
    /\ progress_proxy.n = 2
    /\ progress_proxy.closed

(***************************************************************************)
(* Claims on the call about the order of its steps.                        *)
(***************************************************************************)
\* The steps of the call after the arrays are built, in the order begun.
StepsAfterBuild == SubSeq(trace, 3, Len(trace))

ScanStep == IF field \in ScannedFields THEN <<"scan">> ELSE <<>>

WarningsFor(ps) == IF _check_singular_points(coordinates, ps, field) THEN 1 ELSE 0

\* C12 (as claimed): with the checks enabled, a call that returns has run
\* validate, filter, scan, accumulation, normalization, return in that order;
\* the scan examined the prisms the null-prism filter kept, so the warning was
\* given exactly when a point is singular for one of those.
C12_ScanAfterFilter ==
    (pc = "done" /\ ~disable_checks) =>
        /\ StepsAfterBuild
              = <<"validate", "filter">> \o ScanStep
                \o <<"accumulate", "normalize", "return">>
        /\ warnings = WarningsFor(prisms)

\* C12 (amended): with the checks enabled, a call that returns has run
\* validate, singularity scan and warning, null-prism filter, accumulation,
\* normalization, return in that order; the scan examined every prism the
\* caller passed, the null ones included, so the warning was given exactly
\* when a point is singular for one of the prisms passed, even one of zero
\* density or zero volume that the filter drops afterwards.
C12_ScanBeforeFilter ==
    (pc = "done" /\ ~disable_checks) =>
        /\ StepsAfterBuild
              = <<"validate">> \o ScanStep
                \o <<"filter", "accumulate", "normalize", "return">>
        /\ warnings = WarningsFor(given.prisms)

\* C12 witness: a call with the checks enabled has returned after one warning
\* although no point is singular for a prism the filter kept: the prism at
\* whose singularity the point lies is null.
C12_Witness ==
    /\ pc = "done"
    /\ ~disable_checks
    /\ field \in ScannedFields
    /\ \E m \in 1..Len(given.prisms) :
          /\ IsNull(given.prisms[m], given.density[m])
          /\ _check_singular_points(coordinates, <<given.prisms[m]>>, field)
    /\ ~_check_singular_points(coordinates, prisms, field)
    /\ warnings = 1

(***************************************************************************)
(* Claims on the call about the accumulation.                              *)
(***************************************************************************)
\* The elements of the output array a step writes.
Written == {l \in 1..Len(result) : l \in 1..Len(result') /\ result'[l] # result[l]}

AllFinished ==
    /\ finished = 1..Len(coordinates)
    /\ \A l \in 1..Len(coordinates) : inner[l] = Len(prisms)

\* What every step of the call keeps to.
WritesOwnElementThenJoin ==
    /\ pc = "accumulate" =>
          /\ prisms' = prisms /\ density' = density
          /\ coordinates' = coordinates /\ owner' = owner
          /\ Cardinality(Written) <= 1
          /\ \A l \in Written :
                /\ Current(l)
                /\ result'[l].factors = result[l].factors
    /\ (\E l \in Written : result'[l].factors # result[l].factors) =>
          (pc = "normalize" /\ AllFinished)
    /\ pc' \in {"normalize", "return", "done"} => AllFinished

\* C13: while the threads run, a step writes one element of the output array
\* at most, the element of the index its thread is at, which belongs to that
\* thread alone as the indices keep their threads: no element is written by
\* two threads; no step of a thread writes the prisms, the densities or the
\* coordinates; and the sign and the units are applied to the array only when
\* every thread has finished all of its points.
C13_DisjointWritesThenJoin == [][WritesOwnElementThenJoin]_vars

\* C13 witness: two threads are each in the middle of their own point, the
\* first prism accumulated to both elements and the second to neither.
C13_Witness ==
    /\ pc = "accumulate"
    /\ parallel
    /\ Len(coordinates) = 2
    /\ owner[1] # owner[2]
    /\ Len(prisms) = 2
    /\ inner[1] = 1 /\ inner[2] = 1
    /\ Len(result[1].terms) = 1 /\ Len(result[2].terms) = 1
    /\ finished = {}

\* The sum for point l, in prism order from zero, over the entries of the
\* arrays passed that are not null, up to the k-th of them.
SurvivorSum(l, k) ==
    [j \in 1..k |->
        KernelTerm(field, coordinates[l], given.prisms[KthSurvivor(j)],
                   given.density[KthSurvivor(j)])]

\* C14: the value of each point is, during the accumulation, the ordered sum
\* over the first non-null prisms passed, as many as its loop has done, and
\* once the accumulation has finished and before the sign and the units, the
\* ordered sum from zero over exactly the non-null prisms passed, each once;
\* the value returned is that sum times the factors of the field.  When every
\* prism passed is null, every element returned is zero, for every field tag.
C14_OrderedSumOverSurvivors ==
    /\ pc = "accumulate" =>
          \A l \in 1..Len(coordinates) :
              result[l] = [terms |-> SurvivorSum(l, inner[l]), factors |-> <<>>]
    /\ pc = "normalize" =>
          /\ Len(result) = Len(coordinates)
          /\ \A l \in 1..Len(coordinates) :
                result[l] = [terms |-> SurvivorSum(l, Cardinality(Survivors)),
                             factors |-> <<>>]
    /\ pc = "done" =>
          /\ Len(result) = Len(coordinates)
          /\ \A l \in 1..Len(coordinates) :
                /\ result[l].terms = SurvivorSum(l, Cardinality(Survivors))
                /\ Survivors = {} => result[l].terms = <<>>

\* C14 witness: of two different prisms passed, both kept by the filter, the
\* sums of two points have both, in their order; the call has returned.
C14_Witness ==
    /\ pc = "done"
    /\ Len(coordinates) = 2
    /\ Len(given.prisms) = 2
    /\ given.prisms[1] # given.prisms[2]
    /\ Survivors = {1, 2}
    /\ \A l \in 1..2 :
          /\ Len(result[l].terms) = 2
          /\ result[l].terms[1].prism = given.prisms[1]
          /\ result[l].terms[2].prism = given.prisms[2]

(***************************************************************************)
(* Claim on the scanner about the edges.                                   *)
(***************************************************************************)
\* The boundaries of the prism on an axis (1 easting, 2 northing, 3 upward).
Low(prism, axis) == prism[2 * axis - 1]

High(prism, axis) == prism[2 * axis]

\* The point lies on an edge of the prism that runs along the axis, and not
\* on a vertex: at a boundary on the two other axes, strictly between the
\* boundaries on this one.
OnEdgeAlong(point, prism, axis) ==
    /\ Low(prism, axis) < point[axis] /\ point[axis] < High(prism, axis)
    /\ \A other \in (1..3) \ {axis} :
          point[other] \in {Low(prism, other), High(prism, other)}

\* The axes of the edges on which the claim says the field is undefined.
EdgeAxesOf(f) ==
    CASE f = "g_ee" -> {2, 3}
      [] f = "g_nn" -> {1, 3}
      [] f = "g_zz" -> {1, 2}
      [] f = "g_en" -> {3}
      [] f = "g_ez" -> {2}
      [] f = "g_nz" -> {1}
      [] OTHER -> {}

\* C15: with the check run on a single prism and points none of which is a
\* vertex of it, the warning is given exactly when some point lies on an edge
\* of the prism along an axis among: northing or upward for g_ee, easting or
\* upward for g_nn, easting or northing for g_zz, upward for g_en, northing
\* for g_ez, easting for g_nz; a point on an edge along another axis gives no
\* warning for the field.
C15_EdgeWarnsPerField ==
    (/\ pc = "scanned"
     /\ Len(prisms) = 1
     /\ \A l \in 1..Len(coordinates) : ~IsVertex(coordinates[l], prisms[1]))
        => (warnings = 1 <=>
                \E l \in 1..Len(coordinates), axis \in EdgeAxesOf(field) :
                    OnEdgeAlong(coordinates[l], prisms[1], axis))
           /\ warnings \in {0, 1}

\* C15 witness: for g_ez, a point on an edge along northing, not a vertex,
\* gave the warning, the other point lying on an edge along upward.
C15_Witness ==
    /\ pc = "scanned"
    /\ field = "g_ez"
    /\ Len(prisms) = 1
    /\ Len(coordinates) = 2
    /\ OnEdgeAlong(coordinates[1], prisms[1], 3)
    /\ OnEdgeAlong(coordinates[2], prisms[1], 2)
    /\ warnings = 1

\* For g_ez a point on an edge along upward alone gives no warning.
C15_OtherAxisSilent ==
    /\ pc = "scanned"
    /\ field = "g_ez"
    /\ Len(prisms) = 1
    /\ Len(coordinates) = 1
    /\ OnEdgeAlong(coordinates[1], prisms[1], 3)
    /\ warnings = 0

====
